---- MODULE Spec2Model ----
(***************************************************************************)
(* Model of the quiz service: the relational tables of db.py and the      *)
(* request handlers of routes/auth.py, routes/tests.py and                 *)
(* routes/test_execution.py.                                               *)
(*                                                                         *)
(* start_test, submit_test and register are modelled one SQL statement per *)
(* step, so that two requests interleave between their statements.  Every  *)
(* request runs in a transaction of its own: the rows it writes carry the  *)
(* number of the request in the field tx until its commit (tx = 0 is       *)
(* committed), and a statement reads the committed rows and the rows of    *)
(* its own transaction.  login, create_test, update_test, delete_test,     *)
(* get_test, get_test_stats and export_stats are modelled as one step      *)
(* each.                                                                   *)
(*                                                                         *)
(* Six specifications: Spec (requests overlap, from the two users of the   *)
(* test suite), SpecSeq (every request, one at a time, from empty tables), *)
(* SpecCrud (routes/auth.py and routes/tests.py alone, with every kind of  *)
(* input), SpecCascade (one at a time, with two tests side by side),       *)
(* SpecLive (SpecCascade with fairness, for what eventually happens) and   *)
(* SpecRegister (register requests that overlap).                          *)
(*                                                                         *)
(* A score is the exact fraction <<numerator, denominator>> in lowest      *)
(* terms (the code computes it in floating point); NoScore is SQL NULL.    *)
(***************************************************************************)
EXTENDS Integers, Sequences, FiniteSets, TLC

\* ------------------------------------------------------------------ bounds
MaxUsers == 2
MaxTests == 1
MaxQuestionId == 2
MaxAttemptId == 2
MaxAnswerId == 2
MaxQuestions == 2
MaxAnswers == 2
MaxOverlapQuestions == 1
MaxOverlapAnswers == 1
MaxCascadeTests == 2

Reqs == {1, 2}
Emails == {"c@x", "p@x"}
Roles == {"participant", "creator"}
Titles == {"T1", "T2"}
Strs == {"a", "b"}
\* what a register request may carry: RegisterRequest takes any strings
RoleInputs == Roles \cup {"admin"}
Passwords == {"password123", "pw"}

VARIABLES users, tests, questions, attempts, answers, lastId, req, response

vars == <<users, tests, questions, attempts, answers, lastId, req, response>>

\* ------------------------------------------------------------ plain values
NoScore == <<>>

RECURSIVE GCD(_, _)
GCD(a, b) == IF b = 0 THEN a ELSE GCD(b, a % b)

Frac(n, d) == <<n \div GCD(n, d), d \div GCD(n, d)>>

\* final_score = (score / total_questions) * 100 if total_questions > 0 else 0
FinalScore(score, total_questions) ==
    IF total_questions > 0 THEN Frac(score * 100, total_questions) ELSE <<0, 1>>

RECURSIVE SortedIds(_)
SortedIds(S) ==
    IF S = {} THEN <<>>
    ELSE LET m == CHOOSE x \in S : \A y \in S : x <= y
         IN  <<m>> \o SortedIds(S \ {m})

Perms(s) ==
    {p \in [1..Len(s) -> 1..Len(s)] : \A i, j \in 1..Len(s) : i # j => p[i] # p[j]}

SeqsUpTo(S, n) == UNION {[1..k -> S] : k \in 0..n}

\* ------------------------------------------------------------------ tables
UserById(id) == {u \in users : u.id = id}
TestById(id) == {t \in tests : t.id = id}
QuestionsOf(test_id) == {q \in questions : q.test_id = test_id}
QuestionById(id) == {q \in questions : q.id = id}

\* the rows of a table that the transaction of request r reads
Visible(table, r) == {x \in table : x.tx \in {0, r}}
Committed(table) == {x \in table : x.tx = 0}

QuestionInputs(corrects) ==
    {[type |-> "open", options |-> <<>>, correct_answer |-> c] : c \in corrects}

\* multiple_choice questions as a request may carry them: well formed, with
\* one option, with six options, with a correct_answer that is not an option
ChoiceInputs ==
    {[type |-> "multiple_choice", options |-> <<"a", "b">>, correct_answer |-> "a"],
     [type |-> "multiple_choice", options |-> <<"a">>, correct_answer |-> "a"],
     [type |-> "multiple_choice", options |-> <<"a", "b", "c", "d", "e", "f">>,
      correct_answer |-> "a"],
     [type |-> "multiple_choice", options |-> <<"a", "b">>, correct_answer |-> "c"]}

\* a JSON value that is not a string (the number 7), as an option of a
\* question: the strings of the model stand for the JSON values of a request
NotAString == "<7>"

BadOptionInputs ==
    {[type |-> "multiple_choice", options |-> <<"a", NotAString>>,
      correct_answer |-> "a"]}

\* The requests that arrive: every kind of request when they run one at a
\* time, shorter lists and one title when they overlap (strs: the answers a
\* submit_test may carry).
SeqLoad ==
    [emails |-> Emails, roles |-> Roles, passwords |-> {"password123"},
     titles |-> Titles, shuffle |-> BOOLEAN,
     inputs |-> QuestionInputs(Strs), tests |-> MaxTests,
     questions |-> MaxQuestions, answers |-> MaxAnswers, strs |-> Strs]

OverlapLoad ==
    [emails |-> {"c@x"}, roles |-> Roles, passwords |-> {"password123"},
     titles |-> {"T1"}, shuffle |-> {FALSE},
     inputs |-> QuestionInputs({"a"}), tests |-> MaxTests,
     questions |-> MaxOverlapQuestions, answers |-> MaxOverlapAnswers,
     strs |-> {"a", "A"}]

\* the requests to routes/auth.py and routes/tests.py in all their variety:
\* any role and password, open and multiple_choice questions, options that
\* are not strings
CrudLoad ==
    [emails |-> Emails, roles |-> RoleInputs, passwords |-> Passwords,
     titles |-> Titles, shuffle |-> {FALSE},
     inputs |-> QuestionInputs({"a"}) \cup ChoiceInputs \cup BadOptionInputs,
     tests |-> MaxTests,
     questions |-> MaxQuestions, answers |-> MaxAnswers, strs |-> Strs]

\* two tests side by side, each with at most one question
CascadeLoad ==
    [emails |-> {"c@x"}, roles |-> Roles, passwords |-> {"password123"},
     titles |-> Titles, shuffle |-> {FALSE},
     inputs |-> QuestionInputs({"a"}), tests |-> MaxCascadeTests,
     questions |-> MaxOverlapQuestions, answers |-> MaxOverlapAnswers,
     strs |-> {"a", "A"}]

AnswerInputs(strs) ==
    {[question_id |-> q, answer |-> s] : q \in 1..MaxQuestionId, s \in strs}

\* --------------------------------------------------------------- requests
IdleReq ==
    [pc |-> "idle", op |-> "none", user_id |-> 0, test_id |-> 0,
     answers |-> <<>>, attempt_id |-> 0, total_questions |-> 0,
     score |-> 0, i |-> 0, is_correct |-> FALSE, correct_answer |-> "",
     correct_answers |-> <<>>, final_score |-> NoScore, questions |-> <<>>,
     email |-> "", password |-> "", role |-> ""]

NoToken == <<>>
NoStats == <<>>

\* the last response, with the request it answers (email, password, role:
\* register and login; answers: submit_test; title, input: the title and the
\* questions of create_test and update_test)
NoResponse ==
    [op |-> "none", user_id |-> 0, test_id |-> 0, status |-> 0,
     answers |-> <<>>, attempt_id |-> 0, written |-> 0, score |-> NoScore,
     correct_answers |-> <<>>, questions |-> <<>>,
     email |-> "", password |-> "", role |-> "", access_token |-> NoToken,
     stats |-> NoStats, format |-> "", data |-> <<>>,
     title |-> "", input |-> <<>>]

Reply(op, user_id, test_id, status) ==
    [NoResponse EXCEPT !.op = op, !.user_id = user_id, !.test_id = test_id,
                       !.status = status]

ReplyOf(r, status) ==
    [Reply(req[r].op, req[r].user_id, req[r].test_id, status)
        EXCEPT !.answers = req[r].answers, !.attempt_id = req[r].attempt_id,
               !.written = Len(req[r].correct_answers)]

InProgress(r) == req[r].pc # "idle"
Quiet == \A r \in Reqs : ~InProgress(r)

\* bcrypt.hashpw and bcrypt.checkpw: the hash is a function of the password
\* (and of a salt kept in the hash), told apart from the password itself
hashpw(password) == <<"$2b$", password>>
checkpw(password, password_hash) == hashpw(password) = password_hash

\* jwt.encode with JWT_SECRET_KEY, and the jwt.decode of get_current_user
jwt_encode(sub) == [alg |-> "HS256", sub |-> sub]
get_current_user(token) == token.sub

\* the tables as init_db creates them
Init ==
    /\ users = {}
    /\ tests = {}
    /\ questions = {}
    /\ attempts = {}
    /\ answers = {}
    /\ lastId = [users |-> 0, tests |-> 0, questions |-> 0, attempts |-> 0,
                 answers |-> 0]
    /\ req = [r \in Reqs |-> IdleReq]
    /\ response = NoResponse

\* the tables as the fixtures of the test suite leave them: one creator and
\* one participant, no tests
Fixtures ==
    /\ users = {[id |-> 1, email |-> "c@x", role |-> "creator",
                 password_hash |-> hashpw("password123")],
                [id |-> 2, email |-> "p@x", role |-> "participant",
                 password_hash |-> hashpw("password123")]}
    /\ tests = {}
    /\ questions = {}
    /\ attempts = {}
    /\ answers = {}
    /\ lastId = [users |-> 2, tests |-> 0, questions |-> 0, attempts |-> 0,
                 answers |-> 0]
    /\ req = [r \in Reqs |-> IdleReq]
    /\ response = NoResponse

\* ------------------------------------------------- the storage engine (FKs)
\* INSERT INTO test_attempts checks its foreign key on tests(id) and holds the
\* parent row until the transaction ends: statements that write that row wait.
TestRowLocked(test_id) ==
    \E a \in attempts : a.tx # 0 /\ a.test_id = test_id

\* INSERT INTO answers holds the parent question and attempt rows likewise.
QuestionRowsLocked(test_id) ==
    \E a \in answers :
        a.tx # 0 /\ a.question_id \in {q.id : q \in QuestionsOf(test_id)}

AttemptRowLocked(attempt_id, r) ==
    \E a \in answers : a.tx \notin {0, r} /\ a.attempt_id = attempt_id

\* UPDATE test_attempts holds the row exclusively until the transaction ends.
AttemptRowWritten(attempt_id, r) ==
    \E o \in Reqs \ {r} : req[o].pc = "s_commit" /\ req[o].attempt_id = attempt_id

\* The rows a transaction wrote and did not commit are dropped when its
\* connection is given back.
Discard(table, r) == {x \in table : x.tx # r}

\* cursor.connection.rollback()
Rollback(table, r) == {x \in table : x.tx # r}

\* FOREIGN KEY (attempt_id) ... ON DELETE CASCADE, FOREIGN KEY (question_id)
\* ... ON DELETE CASCADE: the answers left when the questions qids and the
\* attempts aids are deleted
NoCascade(qids, aids) == answers

Cascade(qids, aids) ==
    {a \in answers : a.question_id \notin qids /\ a.attempt_id \notin aids}

\* The same for a request that is one step: what it wrote (written) replaces
\* what was stored (before) if it committed, and is dropped if it did not.
ReleaseAutocommit(before, written, committed) == written

Release(before, written, committed) == IF committed THEN written ELSE before

\* cursor.connection.commit()
Commit(table, r) == {IF x.tx = r THEN [x EXCEPT !.tx = 0] ELSE x : x \in table}

\* -------------------------------------------------------------- utils.py
\* 200 stands for "no exception"
CheckCreatorRoleOnly(user_id, test_id) ==
    IF \A u \in UserById(user_id) : u.role # "creator" THEN 403 ELSE 200

check_creator_permission(user_id, test_id) ==
    IF \A u \in UserById(user_id) : u.role # "creator" THEN 403
    ELSE IF test_id # 0 /\ \A t \in TestById(test_id) : t.creator_id # user_id
         THEN 404
         ELSE 200

\* a request ends with its response; a request goes on to its next statement
Finish(r, resp) ==
    /\ response' = resp
    /\ req' = [req EXCEPT ![r] = IdleReq]

Goto(r, pc) == req' = [req EXCEPT ![r].pc = pc]

\* ---------------------------------------------------------- routes/auth.py
\* The HTTPException(400) of line 67 is raised inside the try block, whose
\* handlers are (IntegrityError, OperationalError) and Exception: it is caught
\* by "except Exception" and replaced by HTTPException(500).
AuthReply(op, user_id, status, email, password, role) ==
    [Reply(op, user_id, 0, status) EXCEPT !.email = email,
                                          !.password = password, !.role = role]

\* register: SELECT id FROM users WHERE email
RegisterBegin(r, load) ==
    \E email \in load.emails, password \in load.passwords, role \in load.roles :
        /\ req[r].pc = "idle"
        /\ IF \E u \in users : u.email = email
           THEN /\ response' = AuthReply("register", 0, 500, email, password, role)
                /\ UNCHANGED req
           ELSE /\ req' = [req EXCEPT ![r] =
                     [IdleReq EXCEPT !.pc = "r_insert", !.op = "register",
                                     !.email = email, !.password = password,
                                     !.role = role]]
                /\ UNCHANGED response
        /\ UNCHANGED <<users, tests, questions, attempts, answers, lastId>>

\* email VARCHAR(255) UNIQUE: the key an INSERT INTO users is checked against
NoUniqueKey(email) == FALSE

DuplicateEntry(email) == \E u \in users : u.email = email

\* register: INSERT INTO users and commit.  The row is locked until the
\* commit that follows the insert at once, and an insert of the same email
\* waits for it: the two statements are one step.  A duplicate entry raises
\* IntegrityError, which handle_db_error turns into HTTPException(400).
RegisterInsert(r) ==
    /\ req[r].pc = "r_insert"
    /\ IF DuplicateEntry(req[r].email)
       THEN /\ Finish(r, AuthReply("register", 0, 400, req[r].email,
                                   req[r].password, req[r].role))
            /\ UNCHANGED <<users, lastId>>
       ELSE /\ lastId.users < MaxUsers
            /\ users' = users \cup
                   {[id |-> lastId.users + 1, email |-> req[r].email,
                     role |-> req[r].role,
                     password_hash |-> hashpw(req[r].password)]}
            /\ lastId' = [lastId EXCEPT !.users = @ + 1]
            /\ Finish(r, AuthReply("register", lastId.users + 1, 200,
                                   req[r].email, req[r].password, req[r].role))
    /\ UNCHANGED <<tests, questions, attempts, answers>>

\* the HTTPException(401) of line 101 is replaced by HTTPException(500)
\* likewise
login(email, password) ==
    LET found == {u \in users : u.email = email}
    IN  /\ response' =
            IF found = {} \/ \A u \in found : ~checkpw(password, u.password_hash)
            THEN AuthReply("login", 0, 500, email, password, "")
            ELSE LET user == CHOOSE u \in found : TRUE
                 IN  [AuthReply("login", 0, 200, email, password, "")
                         EXCEPT !.access_token = jwt_encode(user.id)]
        /\ UNCHANGED <<users, lastId>>

Login(load) ==
    \E email \in load.emails, password \in Passwords :
        /\ login(email, password)
        /\ UNCHANGED <<tests, questions, attempts, answers, req>>

\* --------------------------------------------------------- routes/tests.py
NewQuestions(test_id, qs) ==
    {[id |-> lastId.questions + k, test_id |-> test_id, type |-> qs[k].type,
      options |-> qs[k].options, correct_answer |-> qs[k].correct_answer]
        : k \in 1..Len(qs)}

QuestionDetail(q) ==
    [id |-> q.id, type |-> q.type, options |-> q.options,
     correct_answer |-> q.correct_answer]

get_test(user_id, id) ==
    LET perm == check_creator_permission(user_id, id)
        ids == SortedIds({q.id : q \in QuestionsOf(id)})
    IN  /\ response' =
            IF perm # 200 THEN Reply("get_test", user_id, id, perm)
            ELSE [Reply("get_test", user_id, id, 200) EXCEPT !.questions =
                    [k \in 1..Len(ids) |->
                        QuestionDetail(CHOOSE q \in questions : q.id = ids[k])]]
        /\ UNCHANGED <<users, tests, questions, attempts, answers, lastId, req>>

TestReply(op, user_id, test_id, status, title, qs) ==
    [Reply(op, user_id, test_id, status) EXCEPT !.title = title, !.input = qs]

\* SELECT id FROM tests WHERE title = %s AND id != %s (create_test: WHERE
\* title = %s, no id is left out)
TitleFree(title, id) == FALSE

TitleTaken(title, id) == \E t \in tests : t.title = title /\ t.id # id

\* if options and not all(isinstance(opt, str) for opt in options)
InvalidOptions(q) ==
    \E k \in 1..Len(q.options) : q.options[k] = NotAString

\* the questions the loop inserts: all of them, or the ones before the first
\* whose options raise HTTPException(400)
Inserted(qs) ==
    IF \E k \in 1..Len(qs) : InvalidOptions(qs[k])
    THEN SubSeq(qs, 1, (CHOOSE k \in 1..Len(qs) :
                          /\ InvalidOptions(qs[k])
                          /\ \A j \in 1..(k - 1) : ~InvalidOptions(qs[j])) - 1)
    ELSE qs

\* The INSERT INTO tests and the INSERTs of the loop come before the commit:
\* a request that raises in the loop has written the test and the questions
\* before the one it refuses.  (AUTO_INCREMENT ids are used up all the same.)
create_test(user_id, title, shuffle, qs, max_tests) ==
    LET perm == check_creator_permission(user_id, 0)
        test_id == lastId.tests + 1
        done == Inserted(qs)
        committed == (done = qs)
    IN  IF perm # 200
        THEN /\ response' = TestReply("create_test", user_id, 0, perm, title, qs)
             /\ UNCHANGED <<tests, questions, lastId>>
        ELSE IF TitleTaken(title, 0)
        THEN /\ response' = TestReply("create_test", user_id, 0, 400, title, qs)
             /\ UNCHANGED <<tests, questions, lastId>>
        ELSE /\ lastId.tests < max_tests
             /\ lastId.questions + Len(done) <= MaxQuestionId
             /\ tests' = Release(tests,
                    tests \cup
                        {[id |-> test_id, title |-> title, creator_id |-> user_id,
                          shuffle_questions |-> shuffle]},
                    committed)
             /\ questions' = Release(questions,
                    questions \cup NewQuestions(test_id, done), committed)
             /\ lastId' = [lastId EXCEPT !.tests = test_id,
                                         !.questions = @ + Len(done)]
             /\ response' =
                    IF committed
                    THEN TestReply("create_test", user_id, test_id, 200, title, qs)
                    ELSE TestReply("create_test", user_id, 0, 400, title, qs)

\* DELETE FROM questions WHERE test_id = %s and the INSERTs of the loop
AddQuestions(id, qs) == questions \cup NewQuestions(id, qs)

ReplaceQuestions(id, qs) ==
    (questions \ QuestionsOf(id)) \cup NewQuestions(id, qs)

\* UPDATE tests, DELETE FROM questions (the answers to them go by ON DELETE
\* CASCADE) and the INSERTs of the loop come before the commit likewise.
update_test(user_id, id, title, shuffle, qs) ==
    LET perm == check_creator_permission(user_id, id)
        old == {q.id : q \in QuestionsOf(id)}
        done == Inserted(qs)
        committed == (done = qs)
    IN  IF perm # 200
        THEN /\ response' = TestReply("update_test", user_id, id, perm, title, qs)
             /\ UNCHANGED <<tests, questions, answers, lastId>>
        ELSE IF TitleTaken(title, id)
        THEN /\ response' = TestReply("update_test", user_id, id, 400, title, qs)
             /\ UNCHANGED <<tests, questions, answers, lastId>>
        ELSE /\ ~TestRowLocked(id)
             /\ ~QuestionRowsLocked(id)
             /\ lastId.questions + Len(done) <= MaxQuestionId
             /\ tests' = Release(tests,
                    {IF t.id = id
                     THEN [t EXCEPT !.title = title, !.shuffle_questions = shuffle]
                     ELSE t : t \in tests},
                    committed)
             /\ questions' = Release(questions, ReplaceQuestions(id, done),
                                     committed)
             /\ answers' = Release(answers, Cascade(old, {}), committed)
             /\ lastId' = [lastId EXCEPT !.questions = @ + Len(done)]
             /\ response' =
                    TestReply("update_test", user_id, id,
                              IF committed THEN 200 ELSE 400, title, qs)

\* DELETE FROM tests WHERE id: the foreign keys of questions, test_attempts
\* and answers are ON DELETE CASCADE
DeleteTestRowOnly(user_id, id) ==
    LET perm == check_creator_permission(user_id, id)
    IN  IF perm # 200
        THEN /\ response' = Reply("delete_test", user_id, id, perm)
             /\ UNCHANGED <<tests, questions, attempts, answers>>
        ELSE /\ tests' = tests \ TestById(id)
             /\ response' = Reply("delete_test", user_id, id, 200)
             /\ UNCHANGED <<questions, attempts, answers>>

delete_test(user_id, id) ==
    LET perm == check_creator_permission(user_id, id)
        qids == {q.id : q \in QuestionsOf(id)}
        aids == {a.id : a \in {x \in attempts : x.test_id = id}}
    IN  IF perm # 200
        THEN /\ response' = Reply("delete_test", user_id, id, perm)
             /\ UNCHANGED <<tests, questions, attempts, answers>>
        ELSE /\ ~TestRowLocked(id)
             /\ ~QuestionRowsLocked(id)
             /\ tests' = tests \ TestById(id)
             /\ questions' = questions \ QuestionsOf(id)
             /\ attempts' = {a \in attempts : a.test_id # id}
             /\ answers' = Cascade(qids, aids)
             /\ response' = Reply("delete_test", user_id, id, 200)

GetTest(load) ==
    \E u \in 1..MaxUsers, t \in 1..load.tests : get_test(u, t)

CreateTest(load) ==
    \E u \in 1..MaxUsers, title \in load.titles, shuffle \in load.shuffle,
       qs \in SeqsUpTo(load.inputs, load.questions) :
        /\ create_test(u, title, shuffle, qs, load.tests)
        /\ UNCHANGED <<users, attempts, answers, req>>

UpdateTest(load) ==
    \E u \in 1..MaxUsers, t \in 1..load.tests, title \in load.titles,
       shuffle \in load.shuffle,
       qs \in SeqsUpTo(load.inputs, load.questions) :
        /\ update_test(u, t, title, shuffle, qs)
        /\ UNCHANGED <<users, attempts, req>>

DeleteTest(load) ==
    \E u \in 1..MaxUsers, t \in 1..load.tests :
        /\ delete_test(u, t)
        /\ UNCHANGED <<users, lastId, req>>

\* ------------------------------------------------ routes/test_execution.py
\* if not user or user['role'] != 'participant': 403
IsStoredUser(user_id) == UserById(user_id) # {}

IsParticipant(user_id) == \E u \in UserById(user_id) : u.role = "participant"

QuestionViewWithAnswer(q) ==
    [id |-> q.id, type |-> q.type, options |-> q.options,
     correct_answer |-> q.correct_answer]

QuestionView(q) == [id |-> q.id, type |-> q.type, options |-> q.options]

\* start_test: SELECT role FROM users
StartBegin(r, load) ==
    \E user_id \in 1..MaxUsers, id \in 1..load.tests :
        /\ req[r].pc = "idle"
        /\ IF ~IsParticipant(user_id)
           THEN /\ response' = Reply("start_test", user_id, id, 403)
                /\ UNCHANGED req
           ELSE /\ req' = [req EXCEPT ![r] =
                     [IdleReq EXCEPT !.pc = "t_test", !.op = "start_test",
                                     !.user_id = user_id, !.test_id = id]]
                /\ UNCHANGED response
        /\ UNCHANGED <<users, tests, questions, attempts, answers, lastId>>

\* start_test: SELECT id FROM tests
StartCheckTest(r) ==
    /\ req[r].pc = "t_test"
    /\ IF TestById(req[r].test_id) = {}
       THEN Finish(r, ReplyOf(r, 404))
       ELSE Goto(r, "t_exists") /\ UNCHANGED response
    /\ UNCHANGED <<users, tests, questions, attempts, answers, lastId>>

\* start_test: SELECT id FROM test_attempts WHERE user_id AND test_id
HasAttemptOpenOnly(r) ==
    \E a \in Visible(attempts, r) :
        /\ a.user_id = req[r].user_id
        /\ a.test_id = req[r].test_id
        /\ a.end_time = "NULL"

HasAttempt(r) ==
    \E a \in Visible(attempts, r) :
        a.user_id = req[r].user_id /\ a.test_id = req[r].test_id

StartCheckAttempt(r) ==
    /\ req[r].pc = "t_exists"
    /\ IF HasAttempt(r)
       THEN Finish(r, ReplyOf(r, 403))
       ELSE Goto(r, "t_insert") /\ UNCHANGED response
    /\ UNCHANGED <<users, tests, questions, attempts, answers, lastId>>

\* INSERT INTO test_attempts (user_id, test_id): the table has no unique key
\* on (user_id, test_id), the insert fails only on its foreign keys
InsertAttemptUnique(r, attempt_id) ==
    IF \E a \in attempts :
          a.user_id = req[r].user_id /\ a.test_id = req[r].test_id
    THEN attempts
    ELSE attempts \cup {[id |-> attempt_id, user_id |-> req[r].user_id,
                         test_id |-> req[r].test_id, score |-> NoScore,
                         end_time |-> "NULL", tx |-> r]}

InsertAttempt(r, attempt_id) ==
    attempts \cup {[id |-> attempt_id, user_id |-> req[r].user_id,
                    test_id |-> req[r].test_id, score |-> NoScore,
                    end_time |-> "NULL", tx |-> r]}

StartInsert(r) ==
    /\ req[r].pc = "t_insert"
    /\ IF TestById(req[r].test_id) = {}
       THEN /\ Finish(r, ReplyOf(r, 500))
            /\ UNCHANGED <<attempts, lastId>>
       ELSE /\ lastId.attempts < MaxAttemptId
            /\ attempts' = InsertAttempt(r, lastId.attempts + 1)
            /\ lastId' = [lastId EXCEPT !.attempts = @ + 1]
            /\ req' = [req EXCEPT ![r].pc = "t_questions",
                                  ![r].attempt_id = lastId.attempts + 1]
            /\ UNCHANGED response
    /\ UNCHANGED <<users, tests, questions, answers>>

\* random.shuffle(questions): the list in any order, each row once
RandomSample(rows) ==
    {[k \in 1..Len(rows) |-> rows[p[k]]] : p \in [1..Len(rows) -> 1..Len(rows)]}

random_shuffle(rows) ==
    {[k \in 1..Len(rows) |-> rows[p[k]]] : p \in Perms(rows)}

\* start_test: SELECT shuffle_questions; SELECT id, text, type, options (the
\* rows of one test_id come in the order of their ids); random.shuffle
StartLoadQuestions(r) ==
    /\ req[r].pc = "t_questions"
    /\ LET ids == SortedIds({q.id : q \in QuestionsOf(req[r].test_id)})
           rows == [k \in 1..Len(ids) |->
                       QuestionView(CHOOSE q \in questions : q.id = ids[k])]
           shuffle == \E t \in TestById(req[r].test_id) : t.shuffle_questions
       IN  \E qs \in (IF shuffle THEN random_shuffle(rows) ELSE {rows}) :
              req' = [req EXCEPT ![r].pc = "t_commit", ![r].questions = qs]
    /\ UNCHANGED <<users, tests, questions, attempts, answers, lastId, response>>

\* start_test: commit and return
StartCommit(r) ==
    /\ req[r].pc = "t_commit"
    /\ attempts' = Commit(attempts, r)
    /\ Finish(r, [ReplyOf(r, 200) EXCEPT !.questions = req[r].questions])
    /\ UNCHANGED <<users, tests, questions, answers, lastId>>

\* submit_test: "if not data.answers", ahead of the transaction
NoAnswersNever(data) == FALSE

NoAnswers(data) == data = <<>>

\* submit_test: the empty-list check and SELECT role FROM users
SubmitBegin(r, load) ==
    \E user_id \in 1..MaxUsers, id \in 1..load.tests,
       data \in SeqsUpTo(AnswerInputs(load.strs), load.answers) :
        /\ req[r].pc = "idle"
        /\ IF NoAnswers(data)
           THEN /\ response' = Reply("submit_test", user_id, id, 400)
                /\ UNCHANGED req
           ELSE IF ~IsParticipant(user_id)
           THEN /\ response' = [Reply("submit_test", user_id, id, 403)
                                   EXCEPT !.answers = data]
                /\ UNCHANGED req
           ELSE /\ req' = [req EXCEPT ![r] =
                     [IdleReq EXCEPT !.pc = "s_test", !.op = "submit_test",
                                     !.user_id = user_id, !.test_id = id,
                                     !.answers = data]]
                /\ UNCHANGED response
        /\ UNCHANGED <<users, tests, questions, attempts, answers, lastId>>

\* submit_test: SELECT id FROM tests
SubmitCheckTest(r) ==
    /\ req[r].pc = "s_test"
    /\ IF TestById(req[r].test_id) = {}
       THEN Finish(r, ReplyOf(r, 404))
       ELSE Goto(r, "s_attempt") /\ UNCHANGED response
    /\ UNCHANGED <<users, tests, questions, attempts, answers, lastId>>

\* submit_test: SELECT id FROM test_attempts WHERE ... AND end_time IS NULL
OpenAttemptsAnyEndTime(r) ==
    {a \in Visible(attempts, r) :
        a.user_id = req[r].user_id /\ a.test_id = req[r].test_id}

OpenAttempts(r) ==
    {a \in Visible(attempts, r) :
        /\ a.user_id = req[r].user_id
        /\ a.test_id = req[r].test_id
        /\ a.end_time = "NULL"}

SubmitFindAttempt(r) ==
    /\ req[r].pc = "s_attempt"
    /\ IF OpenAttempts(r) = {}
       THEN Finish(r, ReplyOf(r, 403))
       ELSE /\ \E a \in OpenAttempts(r) :
                  req' = [req EXCEPT ![r].pc = "s_valid", ![r].attempt_id = a.id]
            /\ UNCHANGED response
    /\ UNCHANGED <<users, tests, questions, attempts, answers, lastId>>

\* submit_test: set(question_ids) - valid_question_ids
InvalidIdsSubmitted(r) ==
    {req[r].answers[k].question_id : k \in 1..Len(req[r].answers)}

InvalidIdsFirstOnly(r) ==
    {req[r].answers[1].question_id} \ {q.id : q \in QuestionsOf(req[r].test_id)}

InvalidIds(r) ==
    {req[r].answers[k].question_id : k \in 1..Len(req[r].answers)}
        \ {q.id : q \in QuestionsOf(req[r].test_id)}

SubmitValidateIds(r) ==
    /\ req[r].pc = "s_valid"
    /\ IF InvalidIds(r) # {}
       THEN Finish(r, ReplyOf(r, 400))
       ELSE Goto(r, "s_count") /\ UNCHANGED response
    /\ UNCHANGED <<users, tests, questions, attempts, answers, lastId>>

\* submit_test: SELECT COUNT(*) FROM questions WHERE test_id
CountQuestionsSubmitted(r) == Len(req[r].answers)

CountQuestions(r) == Cardinality(QuestionsOf(req[r].test_id))

\* (the loop that follows has no pass over an empty list)
SubmitCount(r) ==
    /\ req[r].pc = "s_count"
    /\ req' = [req EXCEPT
                  ![r].pc = IF req[r].answers = <<>> THEN "s_update" ELSE "s_select",
                  ![r].i = 1,
                  ![r].total_questions = CountQuestions(r)]
    /\ UNCHANGED <<users, tests, questions, attempts, answers, lastId, response>>

\* is_correct = (ans['answer'] == question['correct_answer'])
EqualIgnoringCase(answer, correct_answer) ==
    LET lower(x) == IF x = "A" THEN "a" ELSE x
    IN  lower(answer) = lower(correct_answer)

IsCorrect(answer, correct_answer) == answer = correct_answer

\* submit_test, loop body: SELECT correct_answer, test_id FROM questions;
\* the comparison and the running count
SubmitSelectQuestion(r) ==
    /\ req[r].pc = "s_select"
    /\ LET ans == req[r].answers[req[r].i]
           found == {q \in QuestionById(ans.question_id) :
                        q.test_id = req[r].test_id}
       IN  IF found = {}
           THEN /\ answers' = Rollback(answers, r)
                /\ attempts' = Rollback(attempts, r)
                /\ Finish(r, ReplyOf(r, 400))
           ELSE /\ \E question \in found :
                    LET is_correct == IsCorrect(ans.answer, question.correct_answer)
                    IN  req' = [req EXCEPT
                            ![r].pc = "s_insert",
                            ![r].is_correct = is_correct,
                            ![r].correct_answer = question.correct_answer,
                            ![r].score = IF is_correct THEN @ + 1 ELSE @]
                /\ UNCHANGED <<answers, attempts, response>>
    /\ UNCHANGED <<users, tests, questions, lastId>>

\* INSERT INTO answers (attempt_id, question_id, answer, is_correct, ...)
InsertAnswerCommitted(r, answer_id) ==
    answers \cup {[id |-> answer_id, attempt_id |-> req[r].attempt_id,
                   question_id |-> req[r].answers[req[r].i].question_id,
                   answer |-> req[r].answers[req[r].i].answer,
                   is_correct |-> req[r].is_correct, tx |-> 0]}

InsertAnswer(r, answer_id) ==
    answers \cup {[id |-> answer_id, attempt_id |-> req[r].attempt_id,
                   question_id |-> req[r].answers[req[r].i].question_id,
                   answer |-> req[r].answers[req[r].i].answer,
                   is_correct |-> req[r].is_correct, tx |-> r]}

\* correct_answers.append({'question_id': .., 'correct_answer': ..})
PrependCorrect(correct_answers, question_id, correct_answer) ==
    <<[question_id |-> question_id, correct_answer |-> correct_answer]>>
        \o correct_answers

AppendCorrect(correct_answers, question_id, correct_answer) ==
    Append(correct_answers,
           [question_id |-> question_id, correct_answer |-> correct_answer])

SubmitInsertAnswer(r) ==
    /\ req[r].pc = "s_insert"
    /\ ~AttemptRowWritten(req[r].attempt_id, r)
    /\ LET ans == req[r].answers[req[r].i]
       IN  IF \/ QuestionById(ans.question_id) = {}
              \/ ~\E a \in Visible(attempts, r) : a.id = req[r].attempt_id
           THEN /\ answers' = Discard(answers, r)
                /\ Finish(r, ReplyOf(r, 500))
                /\ UNCHANGED lastId
           ELSE /\ lastId.answers < MaxAnswerId
                /\ answers' = InsertAnswer(r, lastId.answers + 1)
                /\ lastId' = [lastId EXCEPT !.answers = @ + 1]
                /\ req' = [req EXCEPT
                     ![r].pc = IF req[r].i < Len(req[r].answers)
                               THEN "s_select" ELSE "s_update",
                     ![r].i = @ + 1,
                     ![r].correct_answers =
                         AppendCorrect(@, ans.question_id, req[r].correct_answer)]
                /\ UNCHANGED response
    /\ UNCHANGED <<users, tests, questions, attempts>>

\* submit_test: final_score and UPDATE test_attempts SET score, end_time
SubmitUpdateAttempt(r) ==
    /\ req[r].pc = "s_update"
    /\ ~AttemptRowLocked(req[r].attempt_id, r)
    /\ ~AttemptRowWritten(req[r].attempt_id, r)
    /\ req' = [req EXCEPT ![r].pc = "s_commit",
                  ![r].final_score =
                      FinalScore(req[r].score, req[r].total_questions)]
    /\ UNCHANGED <<users, tests, questions, attempts, answers, lastId, response>>

\* UPDATE test_attempts SET score = %s, end_time = %s WHERE id = %s
SetScoreOnly(a, final_score) == [a EXCEPT !.score = final_score]

SetScoreAndEndTime(a, final_score) ==
    [a EXCEPT !.score = final_score, !.end_time = "now"]

\* submit_test: commit and return
SubmitCommit(r) ==
    /\ req[r].pc = "s_commit"
    /\ attempts' = {IF a.id = req[r].attempt_id
                    THEN SetScoreAndEndTime(a, req[r].final_score)
                    ELSE a : a \in attempts}
    /\ answers' = Commit(answers, r)
    /\ Finish(r, [ReplyOf(r, 200) EXCEPT
                     !.score = req[r].final_score,
                     !.correct_answers = req[r].correct_answers])
    /\ UNCHANGED <<users, tests, questions, lastId>>

\* a statement raises aiomysql.OperationalError: 503
StorageFailure(r) ==
    /\ InProgress(r)
    /\ attempts' = Discard(attempts, r)
    /\ answers' = Discard(answers, r)
    /\ Finish(r, ReplyOf(r, 503))
    /\ UNCHANGED <<users, tests, questions, lastId>>

\* round(x, 1) of x = n/d >= 0, as the number of tenths: to the nearest tenth,
\* a tie to the even one
RoundTenths(n, d) ==
    LET q == (10 * n) \div d
        r == (10 * n) % d
    IN  IF 2 * r < d THEN q
        ELSE IF 2 * r > d THEN q + 1
        ELSE IF q % 2 = 0 THEN q ELSE q + 1

\* SUM(score) of a set of attempts, as a fraction
RECURSIVE SumScores(_)
SumScores(S) ==
    IF S = {} THEN <<0, 1>>
    ELSE LET a == CHOOSE x \in S : TRUE
             rest == SumScores(S \ {a})
         IN  Frac(a.score[1] * rest[2] + rest[1] * a.score[2],
                  a.score[2] * rest[2])

\* SELECT AVG(score) FROM test_attempts WHERE test_id; "or 0"; round(.., 1).
\* AVG skips the rows whose score is NULL and is NULL when none is left.
AverageScoreOrNull(test_id) ==
    LET scored == {a \in Committed(attempts) :
                      a.test_id = test_id /\ a.score # NoScore}
        total == SumScores(scored)
    IN  IF scored = {} THEN NoScore
        ELSE Frac(RoundTenths(total[1], total[2] * Cardinality(scored)), 10)

AverageScore(test_id) ==
    LET scored == {a \in Committed(attempts) :
                      a.test_id = test_id /\ a.score # NoScore}
        total == SumScores(scored)
    IN  IF scored = {} THEN <<0, 1>>
        ELSE Frac(RoundTenths(total[1], total[2] * Cardinality(scored)), 10)

\* TIMESTAMPDIFF(SECOND, start_time, end_time) of a completed attempt: the
\* clock is not part of the model, any of these may be the difference
Durations == {0, 1}

Completed(test_id) ==
    {a \in Committed(attempts) : a.test_id = test_id /\ a.end_time # "NULL"}

\* the role and ownership checks of get_test_stats and export_stats
OwnerCheck(user_id, id) ==
    IF \A u \in UserById(user_id) : u.role # "creator" THEN 403
    ELSE IF \A t \in TestById(id) : t.creator_id # user_id THEN 404
    ELSE 200

\* the loop over the questions of the test: COUNT(*), SUM(is_correct) of the
\* answers of each; a question without answers gets no entry.  (average_time
\* of an entry is left out: answer_time is not part of the model.)
Difficulty(test_id) ==
    LET AnswersTo(q) == {a \in Committed(answers) : a.question_id = q}
        answered == {q \in {x.id : x \in QuestionsOf(test_id)} :
                        Cardinality(AnswersTo(q)) > 0}
    IN  [q \in answered |->
            [correct_percentage |->
                Frac(100 * Cardinality({a \in AnswersTo(q) : a.is_correct}),
                     Cardinality(AnswersTo(q)))]]

get_test_stats(user_id, id) ==
    LET perm == OwnerCheck(user_id, id)
    IN  /\ \E avg_time \in Durations :
              /\ Completed(id) = {} => avg_time = 0
              /\ response' =
                    IF perm # 200 THEN Reply("get_test_stats", user_id, id, perm)
                    ELSE [Reply("get_test_stats", user_id, id, 200)
                            EXCEPT !.stats =
                                [average_score |-> AverageScore(id),
                                 completion_time |-> avg_time,
                                 difficulty |-> Difficulty(id)]]
        /\ UNCHANGED <<users, tests, questions, attempts, answers, lastId, req>>

\* one row per attempt of the test, 'Completion Time (s)' 0 for an open one
ExportRow(a, time) ==
    [user_id |-> a.user_id, score |-> a.score, end_time |-> a.end_time,
     completion_time |-> IF a.end_time = "NULL" THEN 0 ELSE time]

ExportFormats == {"csv", "json", "excel"}
FormatInputs == {"json", "xml"}

ExportReply(user_id, id, format, status) ==
    [Reply("export_stats", user_id, id, status) EXCEPT !.format = format]

\* the format check comes first, before the role and ownership checks
export_stats(user_id, id, format) ==
    LET perm == OwnerCheck(user_id, id)
        ids == SortedIds({a.id : a \in {x \in Committed(attempts) : x.test_id = id}})
    IN  /\ \E times \in [1..Len(ids) -> Durations] :
              /\ \A k \in 1..Len(ids) :
                    (\E a \in attempts : a.id = ids[k] /\ a.end_time = "NULL")
                        => times[k] = 0
              /\ response' =
                    IF format \notin ExportFormats
                    THEN ExportReply(user_id, id, format, 400)
                    ELSE IF perm # 200 THEN ExportReply(user_id, id, format, perm)
                    ELSE [ExportReply(user_id, id, format, 200) EXCEPT !.data =
                            [k \in 1..Len(ids) |->
                                ExportRow(CHOOSE a \in attempts : a.id = ids[k],
                                          times[k])]]
        /\ UNCHANGED <<users, tests, questions, attempts, answers, lastId, req>>

GetTestStats(load) ==
    \E u \in 1..MaxUsers, t \in 1..load.tests : get_test_stats(u, t)

ExportStats(load) ==
    \E u \in 1..MaxUsers, t \in 1..load.tests, format \in FormatInputs :
        export_stats(u, t, format)

\* ------------------------------------------------------- specifications
\* the response of the request that just ended goes out to its caller
Deliver ==
    /\ response # NoResponse
    /\ response' = NoResponse
    /\ UNCHANGED <<users, tests, questions, attempts, answers, lastId, req>>

Ready == response = NoResponse

\* requests overlap: a request arrives while others are in progress.  (login
\* and the two statistics requests write nothing and read committed rows only:
\* they are part of NextSeq.  The users table holds the two users of the
\* fixtures, whose emails are the ones that arrive: a register ends at its
\* SELECT, here and in NextCascade.)
Next ==
    \/ Deliver
    \/ \E r \in Reqs : Ready /\ RegisterBegin(r, OverlapLoad)
    \/ Ready /\ GetTest(OverlapLoad)
    \/ Ready /\ CreateTest(OverlapLoad)
    \/ Ready /\ UpdateTest(OverlapLoad)
    \/ Ready /\ DeleteTest(OverlapLoad)
    \/ \E r \in Reqs : Ready /\ StartBegin(r, OverlapLoad)
    \/ \E r \in Reqs : Ready /\ StartCheckTest(r)
    \/ \E r \in Reqs : Ready /\ StartCheckAttempt(r)
    \/ \E r \in Reqs : Ready /\ StartInsert(r)
    \/ \E r \in Reqs : Ready /\ StartLoadQuestions(r)
    \/ \E r \in Reqs : Ready /\ StartCommit(r)
    \/ \E r \in Reqs : Ready /\ SubmitBegin(r, OverlapLoad)
    \/ \E r \in Reqs : Ready /\ SubmitCheckTest(r)
    \/ \E r \in Reqs : Ready /\ SubmitFindAttempt(r)
    \/ \E r \in Reqs : Ready /\ SubmitValidateIds(r)
    \/ \E r \in Reqs : Ready /\ SubmitCount(r)
    \/ \E r \in Reqs : Ready /\ SubmitSelectQuestion(r)
    \/ \E r \in Reqs : Ready /\ SubmitInsertAnswer(r)
    \/ \E r \in Reqs : Ready /\ SubmitUpdateAttempt(r)
    \/ \E r \in Reqs : Ready /\ SubmitCommit(r)
    \/ \E r \in Reqs : Ready /\ StorageFailure(r)

Spec == Fixtures /\ [][Next]_vars

\* requests run one at a time: a request arrives when no other is in progress
NextSeq ==
    \/ Deliver
    \/ \E r \in Reqs : Ready /\ Quiet /\ RegisterBegin(r, SeqLoad)
    \/ \E r \in Reqs : Ready /\ RegisterInsert(r)
    \/ Ready /\ Quiet /\ GetTest(SeqLoad)
    \/ Ready /\ Quiet /\ CreateTest(SeqLoad)
    \/ Ready /\ Quiet /\ UpdateTest(SeqLoad)
    \/ Ready /\ Quiet /\ DeleteTest(SeqLoad)
    \/ Ready /\ Quiet /\ Login(SeqLoad)
    \/ Ready /\ Quiet /\ GetTestStats(SeqLoad)
    \/ Ready /\ Quiet /\ ExportStats(SeqLoad)
    \/ \E r \in Reqs : Ready /\ Quiet /\ StartBegin(r, SeqLoad)
    \/ \E r \in Reqs : Ready /\ StartCheckTest(r)
    \/ \E r \in Reqs : Ready /\ StartCheckAttempt(r)
    \/ \E r \in Reqs : Ready /\ StartInsert(r)
    \/ \E r \in Reqs : Ready /\ StartLoadQuestions(r)
    \/ \E r \in Reqs : Ready /\ StartCommit(r)
    \/ \E r \in Reqs : Ready /\ Quiet /\ SubmitBegin(r, SeqLoad)
    \/ \E r \in Reqs : Ready /\ SubmitCheckTest(r)
    \/ \E r \in Reqs : Ready /\ SubmitFindAttempt(r)
    \/ \E r \in Reqs : Ready /\ SubmitValidateIds(r)
    \/ \E r \in Reqs : Ready /\ SubmitCount(r)
    \/ \E r \in Reqs : Ready /\ SubmitSelectQuestion(r)
    \/ \E r \in Reqs : Ready /\ SubmitInsertAnswer(r)
    \/ \E r \in Reqs : Ready /\ SubmitUpdateAttempt(r)
    \/ \E r \in Reqs : Ready /\ SubmitCommit(r)
    \/ \E r \in Reqs : Ready /\ StorageFailure(r)

SpecSeq == Init /\ [][NextSeq]_vars

\* the requests to routes/auth.py and routes/tests.py alone, one at a time,
\* with every kind of input
NextCrud ==
    \/ Deliver
    \/ \E r \in Reqs : Ready /\ Quiet /\ RegisterBegin(r, CrudLoad)
    \/ \E r \in Reqs : Ready /\ RegisterInsert(r)
    \/ Ready /\ Quiet /\ Login(CrudLoad)
    \/ Ready /\ Quiet /\ GetTest(CrudLoad)
    \/ Ready /\ Quiet /\ CreateTest(CrudLoad)
    \/ Ready /\ Quiet /\ UpdateTest(CrudLoad)
    \/ Ready /\ Quiet /\ DeleteTest(CrudLoad)

SpecCrud == Init /\ [][NextCrud]_vars

\* every request, one at a time, with two tests side by side
NextCascade ==
    \/ Deliver
    \/ \E r \in Reqs : Ready /\ Quiet /\ RegisterBegin(r, CascadeLoad)
    \/ Ready /\ Quiet /\ GetTest(CascadeLoad)
    \/ Ready /\ Quiet /\ CreateTest(CascadeLoad)
    \/ Ready /\ Quiet /\ UpdateTest(CascadeLoad)
    \/ Ready /\ Quiet /\ DeleteTest(CascadeLoad)
    \/ Ready /\ Quiet /\ Login(CascadeLoad)
    \/ Ready /\ Quiet /\ GetTestStats(CascadeLoad)
    \/ Ready /\ Quiet /\ ExportStats(CascadeLoad)
    \/ \E r \in Reqs : Ready /\ Quiet /\ StartBegin(r, CascadeLoad)
    \/ \E r \in Reqs : Ready /\ StartCheckTest(r)
    \/ \E r \in Reqs : Ready /\ StartCheckAttempt(r)
    \/ \E r \in Reqs : Ready /\ StartInsert(r)
    \/ \E r \in Reqs : Ready /\ StartLoadQuestions(r)
    \/ \E r \in Reqs : Ready /\ StartCommit(r)
    \/ \E r \in Reqs : Ready /\ Quiet /\ SubmitBegin(r, CascadeLoad)
    \/ \E r \in Reqs : Ready /\ SubmitCheckTest(r)
    \/ \E r \in Reqs : Ready /\ SubmitFindAttempt(r)
    \/ \E r \in Reqs : Ready /\ SubmitValidateIds(r)
    \/ \E r \in Reqs : Ready /\ SubmitCount(r)
    \/ \E r \in Reqs : Ready /\ SubmitSelectQuestion(r)
    \/ \E r \in Reqs : Ready /\ SubmitInsertAnswer(r)
    \/ \E r \in Reqs : Ready /\ SubmitUpdateAttempt(r)
    \/ \E r \in Reqs : Ready /\ SubmitCommit(r)
    \/ \E r \in Reqs : Ready /\ StorageFailure(r)

SpecCascade == Fixtures /\ [][NextCascade]_vars

\* A handler, once called, runs to its end: the event loop resumes a request
\* in progress whenever its statement has been answered, and a response is
\* sent.  Nothing obliges a request to arrive or a statement to fail.
Step(r) ==
    \/ StartCheckTest(r) \/ StartCheckAttempt(r) \/ StartInsert(r)
    \/ StartLoadQuestions(r) \/ StartCommit(r)
    \/ SubmitCheckTest(r) \/ SubmitFindAttempt(r) \/ SubmitValidateIds(r)
    \/ SubmitCount(r) \/ SubmitSelectQuestion(r) \/ SubmitInsertAnswer(r)
    \/ SubmitUpdateAttempt(r) \/ SubmitCommit(r)

SpecLive ==
    /\ SpecCascade
    /\ WF_vars(Deliver)
    /\ \A r \in Reqs : WF_vars(Ready /\ Step(r))

\* register and login requests that overlap, from an empty users table
NextRegister ==
    \/ Deliver
    \/ \E r \in Reqs : Ready /\ RegisterBegin(r, CrudLoad)
    \/ \E r \in Reqs : Ready /\ RegisterInsert(r)
    \/ \E r \in Reqs : Ready /\ StorageFailure(r)
    \/ Ready /\ Login(CrudLoad)

SpecRegister == Init /\ [][NextRegister]_vars


\* ------------------------------------------------------------- properties
AttemptsOf(user_id, test_id) ==
    {a \in attempts : a.user_id = user_id /\ a.test_id = test_id}

AnswersOf(attempt_id) == {a \in answers : a.attempt_id = attempt_id}

SubmitPastAttempt == {"s_valid", "s_count", "s_select", "s_insert", "s_update", "s_commit"}
SubmitPastValidation == {"s_count", "s_select", "s_insert", "s_update", "s_commit"}

\* C1: requests running one at a time, a start_test for a (user, test) that
\* already has an attempt does not get past its existence check: it is answered
\* 403 (503 if the statement itself fails) and leaves test_attempts as it was;
\* so there is never more than one attempt per (user_id, test_id).
C1_SecondStartRefused ==
    /\ [](\A a, b \in attempts :
            (a.user_id = b.user_id /\ a.test_id = b.test_id) => a.id = b.id)
    /\ [][\A r \in Reqs :
            (/\ req[r].pc = "t_exists"
             /\ AttemptsOf(req[r].user_id, req[r].test_id) # {}
             /\ req'[r] # req[r])
            => (/\ req'[r].pc = "idle"
                /\ response'.op = "start_test"
                /\ response'.status \in {403, 503}
                /\ attempts' = attempts)]_vars

C1_Witness ==
    /\ response.op = "start_test"
    /\ response.status = 403
    /\ IsParticipant(response.user_id)
    /\ TestById(response.test_id) # {}
    /\ Cardinality(AttemptsOf(response.user_id, response.test_id)) = 1

\* C2: test_attempts has no unique key on (user_id, test_id): a start_test that
\* passed its existence check gets its row inserted whatever rows other
\* transactions wrote meanwhile, so that two overlapping start_test requests
\* leave two attempts of one (user_id, test_id).
C2_InsertNeverRefused ==
    \A r \in Reqs :
        req[r].pc \in {"t_questions", "t_commit"} =>
            \E a \in attempts :
                /\ a.id = req[r].attempt_id
                /\ a.tx = r
                /\ a.user_id = req[r].user_id
                /\ a.test_id = req[r].test_id

C2_Witness ==
    \E a, b \in Committed(attempts) :
        a.id # b.id /\ a.user_id = b.user_id /\ a.test_id = b.test_id

\* C3: requests running one at a time, a submit_test gets past the lookup of
\* its attempt only with an attempt of the caller for the test that is still
\* open; without one it is answered 403 (503 if the statement fails) and no
\* Answer or TestAttempt row changes.  A submit after a successful submit is
\* such a request.
C3_SubmitNeedsOpenAttempt ==
    /\ [](\A r \in Reqs :
            req[r].pc \in SubmitPastAttempt =>
                \E a \in attempts :
                    /\ a.id = req[r].attempt_id
                    /\ a.user_id = req[r].user_id
                    /\ a.test_id = req[r].test_id
                    /\ a.end_time = "NULL"
                    /\ a.score = NoScore)
    /\ [][\A r \in Reqs :
            (/\ req[r].pc = "s_attempt"
             /\ \A a \in AttemptsOf(req[r].user_id, req[r].test_id) :
                    a.end_time # "NULL"
             /\ req'[r] # req[r])
            => (/\ req'[r].pc = "idle"
                /\ response'.op = "submit_test"
                /\ response'.status \in {403, 503}
                /\ attempts' = attempts
                /\ answers' = answers)]_vars

C3_Witness ==
    /\ response.op = "submit_test"
    /\ response.status = 403
    /\ IsParticipant(response.user_id)
    /\ \E a \in AttemptsOf(response.user_id, response.test_id) :
          a.end_time = "now" /\ AnswersOf(a.id) # {}

ForeignIds(data, test_id) ==
    {data[k].question_id : k \in 1..Len(data)} \ {q.id : q \in QuestionsOf(test_id)}

\* C4: requests running one at a time, a submit_test of a participant with an
\* open attempt whose list names a question that is not one of the test does
\* not get past the validation of the ids: it is answered 400 (503 if a
\* statement fails), no Answer row exists for its attempt, also when valid
\* entries precede the foreign one, and the attempt is still open with score
\* and end_time null.
C4_ForeignQuestionRejected ==
    /\ \A r \in Reqs :
          req[r].pc \in SubmitPastValidation =>
              ForeignIds(req[r].answers, req[r].test_id) = {}
    /\ (/\ response.op = "submit_test"
        /\ response.attempt_id # 0
        /\ ForeignIds(response.answers, response.test_id) # {}
        /\ response.status # 503)
       => /\ response.status = 400
          /\ AnswersOf(response.attempt_id) = {}
          /\ \E a \in attempts :
                /\ a.id = response.attempt_id
                /\ a.end_time = "NULL"
                /\ a.score = NoScore

C4_Witness ==
    /\ response.op = "submit_test"
    /\ response.status = 400
    /\ response.attempt_id # 0
    /\ Len(response.answers) = 2
    /\ response.answers[1].question_id
          \in {q.id : q \in QuestionsOf(response.test_id)}
    /\ response.answers[2].question_id
          \notin {q.id : q \in QuestionsOf(response.test_id)}
    /\ answers = {}

\* the number of submitted answers equal to the correct_answer of their question
Matches(data) ==
    Cardinality({k \in 1..Len(data) :
        \E q \in QuestionById(data[k].question_id) :
            q.correct_answer = data[k].answer})

IsPercentage(score, k, n) ==
    /\ Len(score) = 2
    /\ score[2] > 0
    /\ IF n = 0 THEN score[1] = 0 ELSE score[1] * n = 100 * k * score[2]

\* C5: after a successful submit_test the returned score and the score stored
\* on the attempt are k/N*100, k the number of submitted answers equal to the
\* correct_answer of their question and N the number of questions of the test
\* (0 when N = 0).
C5_ScoreIsMatchesOverQuestions ==
    (response.op = "submit_test" /\ response.status = 200) =>
        /\ IsPercentage(response.score, Matches(response.answers),
                        Cardinality(QuestionsOf(response.test_id)))
        /\ \E a \in attempts :
              a.id = response.attempt_id /\ a.score = response.score

C5_Witness ==
    /\ response.op = "submit_test"
    /\ response.status = 200
    /\ Cardinality(QuestionsOf(response.test_id)) = 2
    /\ Len(response.answers) = 1
    /\ Matches(response.answers) = 1
    /\ response.score = <<50, 1>>


\* C6: the score of every attempt is null or a percentage from 0 to 100.
C6_ScoreWithinPercentage ==
    \A a \in attempts :
        a.score # NoScore => (0 <= a.score[1] /\ a.score[1] <= 100 * a.score[2])

\* C7: after a successful submit_test the attempt has exactly one Answer row
\* for each submitted question_id.
C7_OneAnswerPerQuestion ==
    (response.op = "submit_test" /\ response.status = 200) =>
        \A k \in 1..Len(response.answers) :
            Cardinality({a \in AnswersOf(response.attempt_id) :
                a.question_id = response.answers[k].question_id}) = 1

CommittedAnswersOf(table, attempt_id) ==
    {a \in table : a.attempt_id = attempt_id /\ a.tx = 0}

\* C8: once an attempt is completed, no step changes its score or end_time or
\* adds Answer rows to it, as long as the attempt exists.
C8_CompletedAttemptFrozen ==
    [][\A a \in attempts : \A b \in attempts' :
          (a.end_time # "NULL" /\ b.id = a.id) =>
              /\ b.score = a.score
              /\ b.end_time = a.end_time
              /\ CommittedAnswersOf(answers', a.id)
                    \subseteq CommittedAnswersOf(answers, a.id)]_vars

\* C9: a submit_test that fails before its commit leaves nothing behind: every
\* committed Answer row belongs to an attempt that a commit of submit_test
\* completed (score and end_time set), and an uncommitted Answer row belongs to
\* a submit_test still in progress on that attempt.
C9_FailedSubmitLeavesNothing ==
    /\ \A x \in answers :
          x.tx = 0 =>
              \E a \in attempts :
                  a.id = x.attempt_id /\ a.end_time # "NULL" /\ a.score # NoScore
    /\ \A x \in answers :
          x.tx # 0 =>
              /\ req[x.tx].pc \in {"s_select", "s_insert", "s_update", "s_commit"}
              /\ req[x.tx].attempt_id = x.attempt_id

C9_Witness ==
    /\ response.op = "submit_test"
    /\ response.status = 503
    /\ response.written >= 1
    /\ AnswersOf(response.attempt_id) = {}
    /\ \E a \in attempts :
          a.id = response.attempt_id /\ a.end_time = "NULL" /\ a.score = NoScore

Reveals(view) == "correct_answer" \in DOMAIN view

\* C10: a response shows the correct_answer of a question only if it is the
\* response of a successful get_test to the creator of that test, or the
\* response of a successful submit_test to the participant who sent it, and
\* then only of the questions submitted; a start_test response shows none.
C10_CorrectAnswerDisclosure ==
    /\ \A k \in 1..Len(response.questions) :
          Reveals(response.questions[k]) =>
              /\ response.op = "get_test"
              /\ response.status = 200
              /\ ~IsParticipant(response.user_id)
              /\ \E t \in TestById(response.test_id) :
                    t.creator_id = response.user_id
    /\ response.correct_answers # <<>> =>
          /\ response.op = "submit_test"
          /\ response.status = 200
          /\ IsParticipant(response.user_id)
          /\ {response.correct_answers[k].question_id :
                  k \in 1..Len(response.correct_answers)}
               = {response.answers[k].question_id : k \in 1..Len(response.answers)}
    /\ (response.op = "get_test" /\ response.status = 200) =>
          \E t \in TestById(response.test_id) : t.creator_id = response.user_id

C10_Witness ==
    /\ response.op = "submit_test"
    /\ response.status = 200
    /\ IsParticipant(response.user_id)
    /\ Len(response.correct_answers) = 2
    /\ response.correct_answers[1].question_id # response.correct_answers[2].question_id

\* C11: a register request whose email is already registered is answered 400
\* and inserts no user row.
C11_DuplicateEmailRefused ==
    (/\ response.op = "register"
     /\ \E u \in users : u.email = response.email /\ u.id # response.user_id)
    => /\ response.status = 400
       /\ Cardinality({u \in users : u.email = response.email}) = 1

\* C12: a login with an unknown email or a password that does not match the
\* stored hash is answered 401; a login with the credentials of a stored user
\* is answered 200 with a token whose subject is the id of that user.
C12_LoginOutcome ==
    response.op = "login" =>
        LET found == {u \in users :
                        /\ u.email = response.email
                        /\ checkpw(response.password, u.password_hash)}
        IN  IF found = {}
            THEN response.status = 401
            ELSE /\ response.status = 200
                 /\ \E u \in found : get_current_user(response.access_token) = u.id

\* C13: a register request whose role is neither participant nor creator, or
\* whose password has fewer than 6 characters, is answered 400; every stored
\* user has one of the two roles.
C13_RegisterValidatesRoleAndPassword ==
    /\ \A u \in users : u.role \in Roles
    /\ (/\ response.op = "register"
        /\ (response.role \notin Roles \/ Len(response.password) < 6))
       => response.status = 400

\* C14: every multiple_choice question stored by create_test or update_test
\* has 2 to 5 options and a correct_answer that is one of them (a request with
\* another one being rejected).
C14_ChoiceQuestionsWellFormed ==
    \A q \in questions :
        q.type = "multiple_choice" =>
            /\ Len(q.options) >= 2
            /\ Len(q.options) <= 5
            /\ \E k \in 1..Len(q.options) : q.options[k] = q.correct_answer

OwnerGated ==
    {"get_test", "update_test", "delete_test", "get_test_stats", "export_stats"}

IsCreator(user_id) == \E u \in UserById(user_id) : u.role = "creator"

Owns(user_id, test_id) == \E t \in TestById(test_id) : t.creator_id = user_id

\* what the role check and the ownership check, in this order, answer
Gate(user_id, test_id) ==
    IF ~IsCreator(user_id) THEN 403
    ELSE IF ~Owns(user_id, test_id) THEN 404
    ELSE 200

\* a step that answers a request refused by the gate changes no row of the
\* four tables
GateKeeps(resp) ==
    Gate(resp.user_id, resp.test_id) # 200 =>
        /\ resp.status = Gate(resp.user_id, resp.test_id)
        /\ UNCHANGED <<tests, questions, attempts, answers>>

\* a step that changes or removes a test or one of its questions answers an
\* update_test or delete_test of its creator
OnlyOwnerWrites ==
    \A t \in tests :
        (t \notin tests' \/ QuestionsOf(t.id)' # QuestionsOf(t.id)) =>
            /\ response'.op \in {"update_test", "delete_test"}
            /\ response'.status = 200
            /\ response'.user_id = t.creator_id
            /\ response'.test_id = t.id

OfTest(table, t) == {x \in table : x.test_id = t}
AnswersOfTest(table, t) ==
    {a \in table :
        \/ a.attempt_id \in {x.id : x \in OfTest(attempts, t)}
        \/ a.question_id \in {x.id : x \in OfTest(questions, t)}}

\* C16: a successful delete_test of test t leaves no Question, TestAttempt or
\* Answer row of t, and leaves every row of every other test as it was.
C16_DeleteCascades ==
    [][(/\ response.op = "none"
        /\ response'.op = "delete_test"
        /\ response'.status = 200)
       => LET t == response'.test_id
          IN  /\ TestById(t) # {}
              /\ tests' = tests \ TestById(t)
              /\ questions' = questions \ OfTest(questions, t)
              /\ attempts' = attempts \ OfTest(attempts, t)
              /\ answers' = answers \ AnswersOfTest(answers, t)
              /\ \A a \in answers' :
                    /\ a.attempt_id \in {x.id : x \in attempts'}
                    /\ a.question_id \in {x.id : x \in questions'}
              /\ \A a \in AnswersOfTest(answers, t) :
                    /\ a.attempt_id \in {x.id : x \in OfTest(attempts, t)}
                    /\ a.question_id \in {x.id : x \in OfTest(questions, t)}]_vars

\* a test with its question, attempt and answer was deleted while the other
\* test keeps its own
C16_Witness ==
    /\ response.op = "delete_test"
    /\ response.status = 200
    /\ lastId.tests = 2
    /\ lastId.questions = 2
    /\ lastId.attempts = 2
    /\ lastId.answers = 2
    /\ Cardinality(tests) = 1
    /\ Cardinality(questions) = 1
    /\ Cardinality(attempts) = 1
    /\ Cardinality(answers) = 1

\* C17: a submit_test with an empty answers list is answered 400 by the step
\* it arrives with, before the role, test and attempt checks (no submit_test
\* with an empty list is ever in progress), whoever calls and whatever the
\* state of the attempt, and changes no row.
C17_EmptyAnswersRefused ==
    /\ [](/\ (response.op = "submit_test" /\ response.answers = <<>>)
                => response.status = 400
          /\ \A r \in Reqs :
                req[r].op = "submit_test" => req[r].answers # <<>>)
    /\ [][(/\ response.op = "none"
            /\ response'.op = "submit_test"
            /\ response'.answers = <<>>)
           => UNCHANGED <<users, tests, questions, attempts, answers, lastId, req>>]_vars

\* the empty list of a caller who is not a participant, for a test that does
\* not exist
C17_Witness ==
    /\ response.op = "submit_test"
    /\ response.answers = <<>>
    /\ response.status = 400
    /\ ~IsParticipant(response.user_id)
    /\ TestById(response.test_id) = {}

\* C18: the correct_answers of a successful submit_test has one entry per
\* submitted answer, in the order of submission, each with the question_id
\* submitted and the correct_answer stored for that question.
C18_CorrectAnswersFollowSubmission ==
    (response.op = "submit_test" /\ response.status = 200) =>
        /\ Len(response.correct_answers) = Len(response.answers)
        /\ \A k \in 1..Len(response.answers) :
              /\ response.correct_answers[k].question_id
                    = response.answers[k].question_id
              /\ \E q \in QuestionById(response.answers[k].question_id) :
                    q.correct_answer = response.correct_answers[k].correct_answer

C18_Witness ==
    /\ response.op = "submit_test"
    /\ response.status = 200
    /\ Len(response.answers) = 2
    /\ response.answers[1].question_id > response.answers[2].question_id
    /\ response.correct_answers[1].correct_answer
          # response.correct_answers[2].correct_answer

\* C19: a get_test_stats of the creator of a test without attempts is answered
\* 200 with average_score 0 and completion_time 0; the difficulty map of a
\* get_test_stats response has an entry for a question of the test exactly
\* when an Answer row references that question.
C19_StatsOfNoAttempts ==
    (response.op = "get_test_stats" /\ Gate(response.user_id, response.test_id) = 200)
    => /\ response.status = 200
       /\ OfTest(attempts, response.test_id) = {} =>
             /\ response.stats.average_score = <<0, 1>>
             /\ response.stats.completion_time = 0
       /\ DOMAIN response.stats.difficulty =
             {q.id : q \in {x \in QuestionsOf(response.test_id) :
                               \E a \in answers : a.question_id = x.id}}

C19_Witness ==
    /\ response.op = "get_test_stats"
    /\ response.status = 200
    /\ OfTest(attempts, response.test_id) = {}
    /\ Cardinality(QuestionsOf(response.test_id)) = 2
    /\ response.stats.average_score = <<0, 1>>
    /\ response.stats.difficulty = <<>>

HasRole(user_id, role) == \E u \in users : u.id = user_id /\ u.role = role

\* what start_test answers, its checks taken in their order, when no statement
\* fails: 403 unless the caller is a stored participant, then 404 unless the
\* test exists, then 403 if the caller has an attempt for the test already,
\* else 200 with the one attempt it inserted
StartAnswer(resp) ==
    IF ~HasRole(resp.user_id, "participant") THEN resp.status = 403
    ELSE IF TestById(resp.test_id) = {} THEN resp.status = 404
    ELSE IF resp.status = 200
    THEN \E a \in Committed(attempts) :
            /\ AttemptsOf(resp.user_id, resp.test_id) = {a}
            /\ a.id = resp.attempt_id
            /\ a.score = NoScore
            /\ a.end_time = "NULL"
    ELSE /\ resp.status = 403
         /\ resp.attempt_id = 0
         /\ AttemptsOf(resp.user_id, resp.test_id) # {}

\* C20: requests running one at a time, start_test answers 403 to a caller who
\* is not a stored participant, else 404 if the test does not exist, else 403
\* if the caller has an attempt for it; a start answered 200 has added exactly
\* one attempt, of the caller for the test, with score and end_time null; a
\* start answered otherwise has added none; and no step of a start_test
\* changes a user, test, question or answer row, or an attempt row other than
\* the one it inserts.
C20_StartChecksAndInsert ==
    /\ []((response.op = "start_test" /\ response.status # 503)
            => StartAnswer(response))
    /\ [][(/\ response.op = "none"
            /\ \/ response'.op = "start_test"
               \/ \E r \in Reqs : req'[r].op = "start_test")
           => /\ UNCHANGED <<users, tests, questions, answers>>
              /\ Committed(attempts) \subseteq attempts'
              /\ IF response'.op = "start_test" /\ response'.status = 200
                 THEN /\ Cardinality(attempts') = Cardinality(Committed(attempts)) + 1
                      /\ attempts' = Committed(attempts')
                 ELSE IF response'.op = "start_test"
                 THEN attempts' = Committed(attempts)
                 ELSE Cardinality(attempts') <= Cardinality(Committed(attempts)) + 1]_vars

C20_Witness ==
    /\ response.op = "start_test"
    /\ response.status = 200
    /\ Len(response.questions) = 2
    /\ answers = {}
    /\ \E a \in attempts :
          /\ attempts = {a}
          /\ a.id = response.attempt_id
          /\ a.user_id = response.user_id
          /\ a.test_id = response.test_id
          /\ a.score = NoScore
          /\ a.end_time = "NULL"

\* C21: requests running one at a time, the questions list of a start_test
\* answered 200 holds every question of the test exactly once, each with the
\* id, type and options of its row, in the order of the ids when the test has
\* shuffle_questions false and in any order when it is true; and no step of a
\* start_test changes the questions table.
C21_StartReturnsEveryQuestionOnce ==
    /\ []((response.op = "start_test" /\ response.status = 200) =>
            LET qs == response.questions
                stored == QuestionsOf(response.test_id)
            IN  /\ Len(qs) = Cardinality(stored)
                /\ \A q \in stored :
                      \E k \in 1..Len(qs) :
                          /\ qs[k] = [id |-> q.id, type |-> q.type,
                                      options |-> q.options]
                          /\ \A j \in 1..Len(qs) : qs[j].id = q.id => j = k
                /\ (\E t \in TestById(response.test_id) : ~t.shuffle_questions)
                      => \A j, k \in 1..Len(qs) : j < k => qs[j].id < qs[k].id)
    /\ [][(/\ response.op = "none"
            /\ \/ response'.op = "start_test"
               \/ \E r \in Reqs : req'[r].op = "start_test")
           => questions' = questions]_vars

C21_Witness ==
    /\ response.op = "start_test"
    /\ response.status = 200
    /\ \E t \in TestById(response.test_id) : t.shuffle_questions
    /\ Len(response.questions) = 2
    /\ response.questions[1].id > response.questions[2].id

\* C22: no two users share an email, also when register requests overlap: a
\* register that passed its existence check and comes to its insert when a
\* user with its email is stored is answered 400 (503 if the statement itself
\* fails) and the users table stays as it was.
C22_EmailsUniqueUnderRace ==
    /\ [](\A u, v \in users : u.email = v.email => u.id = v.id)
    /\ [][\A r \in Reqs :
            (/\ req[r].pc = "r_insert"
             /\ \E u \in users : u.email = req[r].email
             /\ req'[r] # req[r])
            => (/\ req'[r].pc = "idle"
                /\ response'.op = "register"
                /\ response'.status \in {400, 503}
                /\ users' = users)]_vars

C22_Witness ==
    /\ response.op = "register"
    /\ response.status = 400
    /\ Cardinality({u \in users : u.email = response.email}) = 1

NonStringAt(qs) ==
    {k \in 1..Len(qs) : \E j \in 1..Len(qs[k].options) : qs[k].options[j] = NotAString}

\* C23: a create_test or update_test that is answered 400 for a question whose
\* options are not all strings leaves every table as it was, although the
\* request had written before it was refused: no test row and no question row
\* of a create_test, the fields of the test and its previous questions after
\* an update_test.
C23_RefusedRequestWritesNothing ==
    [][(/\ response.op = "none"
        /\ response'.op \in {"create_test", "update_test"}
        /\ response'.status = 400
        /\ NonStringAt(response'.input) # {})
       => /\ tests' = tests
          /\ questions' = questions
          /\ answers' = answers
          /\ attempts' = attempts]_vars

C23_Witness ==
    /\ response.op = "update_test"
    /\ response.status = 400
    /\ NonStringAt(response.input) = {2}
    /\ \E t \in TestById(response.test_id) :
          /\ t.creator_id = response.user_id
          /\ t.title # response.title
    /\ \A t \in tests : t.title # response.title
    /\ QuestionsOf(response.test_id) # {}
    /\ lastId.questions > Cardinality(questions)

\* C24: in every state, also of overlapping requests and for rows not yet
\* committed, an Answer row references a stored question, and its is_correct
\* is true exactly when its answer is the very string that is the
\* correct_answer of that question ("A" is not "a").
C24_IsCorrectIsExactEquality ==
    \A a \in answers :
        \E q \in questions :
            /\ q.id = a.question_id
            /\ a.is_correct <=> (a.answer = q.correct_answer)

C24_Witness ==
    \E a, b \in Committed(answers), q \in questions :
        /\ a.question_id = q.id
        /\ b.question_id = q.id
        /\ q.correct_answer = "a"
        /\ a.answer = "a" /\ a.is_correct
        /\ b.answer = "A" /\ ~b.is_correct

\* a submit_test of a participant that has arrived: the caller has an open
\* attempt for the test, every question_id of the list is a question of the
\* test, and the answers table has room for the list
CanComplete(r) ==
    /\ req[r].pc = "s_test"
    /\ \E a \in AttemptsOf(req[r].user_id, req[r].test_id) : a.end_time = "NULL"
    /\ ForeignIds(req[r].answers, req[r].test_id) = {}
    /\ lastId.answers + Len(req[r].answers) <= MaxAnswerId

SubmitCompleted ==
    /\ response.op = "submit_test"
    /\ response.status = 200
    /\ \E a \in Committed(attempts) :
          /\ a.id = response.attempt_id
          /\ a.user_id = response.user_id
          /\ a.test_id = response.test_id
          /\ a.end_time = "now"
          /\ a.score = response.score
          /\ a.score # NoScore

SubmitUnavailable == response.op = "submit_test" /\ response.status = 503

\* C25: requests running one at a time, a submit_test of a participant who
\* has an open attempt for the test (a start_test succeeded, no submit since),
\* with a non-empty list whose question_ids are all questions of the test as
\* it is now, is answered 200 with the attempt completed, score and end_time
\* set (or 503 if a statement fails).
C25_StartedAttemptCompletes ==
    \A r \in Reqs : CanComplete(r) ~> (SubmitCompleted \/ SubmitUnavailable)

C25_Witness ==
    /\ SubmitCompleted
    /\ \A k \in 1..Len(response.answers) :
          response.answers[k].question_id
              \in {q.id : q \in QuestionsOf(response.test_id)}

\* C26: in every state, also of overlapping requests, a committed TestAttempt
\* has score null exactly when it has end_time null.
C26_ScoreAndEndTimeTogether ==
    \A a \in Committed(attempts) : (a.score = NoScore) <=> (a.end_time = "NULL")

C26_Witness ==
    /\ response.op = "submit_test"
    /\ response.status = 200
    /\ \E a, b \in Committed(attempts) :
          /\ a.id = response.attempt_id
          /\ a.score # NoScore /\ a.end_time = "now"
          /\ b.score = NoScore /\ b.end_time = "NULL"

\* C27: in every state, a committed Answer row belongs to a committed
\* TestAttempt that is completed (end_time not null) and references a question
\* of the test of that attempt.
C27_AnswersOfCompletedAttempts ==
    \A a \in Committed(answers) :
        \E t \in Committed(attempts) :
            /\ t.id = a.attempt_id
            /\ t.end_time # "NULL"
            /\ \E q \in questions : q.id = a.question_id /\ q.test_id = t.test_id

C27_Witness ==
    /\ \E a \in Committed(answers), t \in Committed(attempts) :
          /\ t.id = a.attempt_id
          /\ t.test_id = 2
          /\ t.end_time = "now"
    /\ QuestionsOf(1) # {}
    /\ \E t \in attempts : t.test_id = 1

\* C28: as long as a test has no questions, no submit_test for it is answered
\* 200 and no step completes an attempt for it: the attempt stays open; and a
\* submit_test never comes to its final_score with total_questions = 0, the
\* branch of the formula for a test without questions.  Requests may overlap.
C28_NoSubmitWithoutQuestions ==
    /\ []((response.op = "submit_test" /\ response.status = 200)
            => QuestionsOf(response.test_id) # {})
    /\ [](\A r \in Reqs :
            req[r].pc \in {"s_update", "s_commit"} => req[r].total_questions > 0)
    /\ [][\A a \in attempts :
            (a.end_time = "NULL" /\ QuestionsOf(a.test_id) = {})
            => \A b \in attempts' : b.id = a.id => b.end_time = "NULL"]_vars

C28_Witness ==
    /\ response.op = "submit_test"
    /\ response.status = 400
    /\ response.answers # <<>>
    /\ response.attempt_id # 0
    /\ QuestionsOf(response.test_id) = {}
    /\ \E a \in Committed(attempts) :
          /\ a.id = response.attempt_id
          /\ a.test_id = response.test_id
          /\ a.end_time = "NULL"

\* C29: requests running one at a time, an update_test answered 200 leaves as
\* the questions of the test one new row per question of the request, in the
\* order of the request, with ids that were never used before; the questions
\* of other tests stay, the answers to the old questions are removed and no
\* other answer is, and no attempt row changes (an open attempt stays open, a
\* completed one keeps score and end_time).  Afterwards a submit_test of the
\* holder of an open attempt is answered 400 when it names an id that is not a
\* question of the test now, the old ids among them, and leaves the attempt
\* open; when it names current ids only it is answered 200 and the attempt is
\* completed (503 if a statement fails).
C29_UpdateReplacesQuestions ==
    /\ [][(/\ response.op = "none"
            /\ response'.op = "update_test"
            /\ response'.status = 200)
           => LET t == response'.test_id
                  old == {q.id : q \in {x \in questions : x.test_id = t}}
                  new == {q \in questions' : q.test_id = t}
                  qs == response'.input
              IN  /\ \A q \in new : q.id > lastId.questions /\ q.id \notin old
                  /\ Cardinality(new) = Len(qs)
                  /\ \A k \in 1..Len(qs) :
                        \E q \in new :
                            /\ q.id = lastId.questions + k
                            /\ q.type = qs[k].type
                            /\ q.options = qs[k].options
                            /\ q.correct_answer = qs[k].correct_answer
                  /\ {q \in questions' : q.test_id # t}
                        = {q \in questions : q.test_id # t}
                  /\ answers' = {a \in answers : a.question_id \notin old}
                  /\ attempts' = attempts]_vars
    /\ [](\A q \in questions : q.id <= lastId.questions)
    /\ []((/\ response.op = "submit_test"
            /\ response.attempt_id # 0
            /\ response.status # 503)
           => IF ForeignIds(response.answers, response.test_id) # {}
              THEN /\ response.status = 400
                   /\ \E a \in attempts :
                         a.id = response.attempt_id /\ a.end_time = "NULL"
              ELSE /\ response.status = 200
                   /\ \E a \in attempts :
                         /\ a.id = response.attempt_id
                         /\ a.end_time = "now"
                         /\ a.score = response.score)

C29_Witness ==
    /\ response.op = "update_test"
    /\ response.status = 200
    /\ response.input # <<>>
    /\ lastId.questions > Len(response.input)
    /\ lastId.answers > 0
    /\ answers = {}
    /\ \E a \in attempts :
          /\ a.test_id = response.test_id
          /\ a.end_time = "now"
          /\ a.score # NoScore

\* C30: requests running one at a time, no two tests share a title: a
\* create_test of a creator with the title of a stored test is answered 400
\* and inserts nothing; an update_test of a test by its creator with the title
\* of another test is answered 400 and changes nothing; an update_test that
\* keeps the title of the test is answered 200.
C30_TitlesUnique ==
    /\ [](\A t, u \in tests : t.title = u.title => t.id = u.id)
    /\ [][(/\ response.op = "none"
            /\ response'.op = "create_test"
            /\ IsCreator(response'.user_id)
            /\ \E t \in tests : t.title = response'.title)
           => /\ response'.status = 400
              /\ UNCHANGED <<tests, questions, answers, attempts>>]_vars
    /\ [][(/\ response.op = "none"
            /\ response'.op = "update_test"
            /\ Gate(response'.user_id, response'.test_id) = 200)
           => IF \E t \in tests :
                    t.id # response'.test_id /\ t.title = response'.title
              THEN /\ response'.status = 400
                   /\ UNCHANGED <<tests, questions, answers, attempts>>
              ELSE /\ response'.status = 200
                   /\ \E t \in tests' :
                         t.id = response'.test_id /\ t.title = response'.title]_vars

C30_Witness ==
    /\ response.op = "update_test"
    /\ response.status = 400
    /\ Gate(response.user_id, response.test_id) = 200
    /\ \E t, u \in tests :
          /\ t.id = response.test_id
          /\ u.id # t.id
          /\ u.title = response.title
          /\ t.title # u.title

====
